---- MODULE Spec2Model ----
(***************************************************************************)
(* A model of the RealEstatePredictor repository: the PricePredictor       *)
(* estimator (src/models/price_predictor.py), the DataProcessor operations *)
(* (src/utils/data_processor.py) and the Streamlit session state kept by   *)
(* src/app.py, src/pages/home.py and src/pages/dashboard.py.               *)
(*                                                                         *)
(* Money is an integer number of currency units.  A PredictionResult holds *)
(* its four numbers as integer multiples of 1/Scale, so that the products  *)
(* with 1 - 0.10 and 1 + 0.10 are exact (rational arithmetic; the rounding *)
(* of IEEE doubles is not modelled).                                       *)
(***************************************************************************)
EXTENDS Integers, Sequences, FiniteSets, TLC

VARIABLES
    est,                \* PricePredictor instances: instance -> its fields
    files,              \* the file system: path -> file
    ret,                \* what the last estimator call returned or raised
    active_page,        \* st.session_state.active_page
    nav_input,          \* the value of the text_input widget keyed "nav_input"
    recent_predictions, \* st.session_state.recent_predictions
    saved_properties,   \* st.session_state.saved_properties
    shown,              \* the prediction the last script run displayed, if any
    clock,              \* datetime.now(), in seconds since the session began
    data,               \* the DataFrame handed to a DataProcessor operation
    args,               \* the other arguments of that call
    out                 \* what the DataProcessor operation returned

vars == <<est, files, ret, active_page, nav_input, recent_predictions,
          saved_properties, shown, clock, data, args, out>>

estVars == <<est, files, ret>>
sessionVars == <<active_page, nav_input, recent_predictions, saved_properties,
                 shown, clock>>
procVars == <<data, args, out>>

Range(s) == {s[i] : i \in 1..Len(s)}

Min(S) == CHOOSE x \in S : \A y \in S : x <= y

Max(S) == CHOOSE x \in S : \A y \in S : x >= y

Abs(x) == IF x < 0 THEN -x ELSE x

(***************************************************************************)
(* Values of DataFrame cells and dict entries: a number, a text (the       *)
(* sequence of its characters) or nan.                                     *)
(***************************************************************************)
Num(v) == [t |-> "num", v |-> v, s |-> << >>]

Str(s) == [t |-> "str", v |-> 0, s |-> s]

\* A text with no number in it.
Text == Str(<<"N", "/", "A">>)

NaN == [t |-> "nan", v |-> 0, s |-> << >>]

IsNum(c) == c.t = "num"

(***************************************************************************)
(* PricePredictor                                                          *)
(***************************************************************************)
Instances == {"p", "q"}

Paths == {"model.joblib"}

NoModel == [kind |-> "None", fitted |-> FALSE, lo |-> 0, hi |-> 0]

NoFeatures == [none |-> TRUE, names |-> {}]

\* PricePredictor.__init__
NewPredictor ==
    [model |-> NoModel, preprocessor |-> "None", features |-> NoFeatures,
     model_trained |-> FALSE]

NoFile == [exists |-> FALSE, readable |-> FALSE, content |-> NoModel]

\* The fixed fractional half-width of the band, confidence = 0.10, as
\* confidence / Scale.
Scale == 100

confidence == 10

\* No dict returned (the call raised).
NoResult ==
    [nan |-> FALSE, predicted_price |-> 0, lower_bound |-> 0, upper_bound |-> 0,
     confidence_score |-> 0]

\* The dict predict returns when the point estimate is the float nan: the
\* three prices are nan, and every comparison with them is false.
NaNResult ==
    [nan |-> TRUE, predicted_price |-> 0, lower_bound |-> 0, upper_bound |-> 0,
     confidence_score |-> Scale - confidence]

\* lower_bound = predicted_price * (1 - confidence), in units of 1/Scale
LowerBound(predicted_price) == predicted_price * (Scale - confidence)

\* upper_bound = predicted_price * (1 + confidence), in units of 1/Scale
UpperBound(predicted_price) == predicted_price * (Scale + confidence)

\* The dict predict returns.
PredictionResult(predicted_price) ==
    [nan |-> FALSE,
     predicted_price |-> predicted_price * Scale,
     lower_bound |-> LowerBound(predicted_price),
     upper_bound |-> UpperBound(predicted_price),
     confidence_score |-> Scale - confidence]

(***************************************************************************)
(* get_demo_model.MockModel.predict.  X is the DataFrame (a sequence of    *)
(* rows, each a function from column names to cells); z is the draw of the *)
(* standard normal behind np.random.normal(0, sd), so the noise is sd * z. *)
(***************************************************************************)
base_price == 150000

price_per_sqft == 200

bedroom_value == 25000

bathroom_value == 15000

price_floor == 50000

fallback_mean == 250000

formula_sd == 10000

fallback_sd == 25000

MockColumns == {"square_feet", "bedrooms", "bathrooms"}

\* The try block raises: X has no row 0 (IndexError), a column is missing and
\* X[0] is no column (KeyError), or a cell is text (str + int is a TypeError).
MockRaises(X) ==
    \/ Len(X) = 0
    \/ \E c \in MockColumns : c \notin DOMAIN X[1] \/ X[1][c].t = "str"

\* base + sqft * price_per_sqft + bedrooms * value + bathrooms * value + noise
MockFormula(row, z) ==
    base_price + (row["square_feet"].v * price_per_sqft)
        + (row["bedrooms"].v * bedroom_value)
        + (row["bathrooms"].v * bathroom_value) + formula_sd * z

\* max(price, 50000)
MockFloor(price) == IF price >= price_floor THEN price ELSE price_floor

\* A MockModel that reads the last row of X.
MockPredictLastRow(X, z) ==
    IF MockRaises(X)
    THEN Num(fallback_mean + fallback_sd * z)
    ELSE IF \E c \in MockColumns : X[Len(X)][c].t = "nan"
         THEN NaN
         ELSE Num(MockFloor(MockFormula(X[Len(X)], z)))

\* The value of MockModel.predict(X)[0]: a number, or nan when a cell of the
\* formula is nan (max(nan, 50000) is nan, for nan is the first argument).
MockPredict(X, z) ==
    IF MockRaises(X)
    THEN Num(fallback_mean + fallback_sd * z)
    ELSE IF \E c \in MockColumns : X[1][c].t = "nan"
         THEN NaN
         ELSE Num(MockFloor(MockFormula(X[1], z)))

(***************************************************************************)
(* PricePredictor.train.  X is abstracted to its columns and its number of *)
(* rows, y is the sequence of targets.  The fitted random forest is        *)
(* abstracted to the interval of its targets: every tree's leaf is a mean  *)
(* of training targets and the forest averages the trees, so each value it *)
(* predicts lies between the least and the greatest target.                *)
(***************************************************************************)
FeatureNames ==
    {"square_feet", "bedrooms", "bathrooms", "location", "property_type",
     "year_built"}

NumericFeatures == {"square_feet", "bedrooms", "bathrooms", "year_built"}

\* The columns of dtype object, which preprocess_data hands to the one-hot
\* encoder.
CategoricalFeatures == FeatureNames \ NumericFeatures

MaxTrain == 2

TargetValues == {-100, 300}

SeqsUpTo(S, n) == UNION {[1..k -> S] : k \in 0..n}

\* X has as many rows as y has targets, or (for the shortest y) one more.
TrainSets ==
    {[cols |-> FeatureNames, rows |-> Len(y), y |-> y] :
        y \in SeqsUpTo(TargetValues, MaxTrain)}
    \cup {[cols |-> FeatureNames, rows |-> Len(y) + 1, y |-> y] :
        y \in SeqsUpTo(TargetValues, 1)}

\* Pipeline.fit raises on an empty X and on X and y of different lengths.
FitRaises(X, y) == X.rows = 0 \/ X.rows # Len(y)

UnfittedPipeline == [kind |-> "Pipeline", fitted |-> FALSE, lo |-> 0, hi |-> 0]

FittedPipeline(y) ==
    [kind |-> "Pipeline", fitted |-> TRUE, lo |-> Min(Range(y)), hi |-> Max(Range(y))]

\* A train that clears the flag before fitting.
TrainedFieldsResetting(e, X, y) ==
    IF FitRaises(X, y)
    THEN [e EXCEPT !.features = [none |-> FALSE, names |-> X.cols],
                   !.preprocessor = "ColumnTransformer",
                   !.model = UnfittedPipeline,
                   !.model_trained = FALSE]
    ELSE [e EXCEPT !.features = [none |-> FALSE, names |-> X.cols],
                   !.preprocessor = "ColumnTransformer",
                   !.model = FittedPipeline(y),
                   !.model_trained = TRUE]

\* The fields of the instance when train returns or raises.
TrainedFields(e, X, y) ==
    IF FitRaises(X, y)
    THEN [e EXCEPT !.features = [none |-> FALSE, names |-> X.cols],
                   !.preprocessor = "ColumnTransformer",
                   !.model = UnfittedPipeline]
    ELSE [e EXCEPT !.features = [none |-> FALSE, names |-> X.cols],
                   !.preprocessor = "ColumnTransformer",
                   !.model = FittedPipeline(y),
                   !.model_trained = TRUE]

\* A metric is a fraction num / den, the square root of one, nan or -inf.
Frac(num, den) == [t |-> "num", num |-> num, den |-> den]

SqrtOf(f) == [f EXCEPT !.t = IF f.t = "num" THEN "sqrt" ELSE f.t]

NanMetric == [t |-> "nan", num |-> 0, den |-> 1]

NegInfMetric == [t |-> "-inf", num |-> 0, den |-> 1]

NoMetrics ==
    [n |-> 0, residuals |-> << >>, y_test |-> << >>, mse |-> NanMetric,
     rmse |-> NanMetric, mae |-> NanMetric, r2 |-> NanMetric]

\* What a call leaves behind for its caller: the exception it raised ("None"
\* when it returned), the value it returned, and for predict the features it
\* was given and the DataFrame it handed to the model.
Returned(op, i, err) ==
    [op |-> op, inst |-> i, path |-> "", err |-> err, result |-> NoResult,
     metrics |-> NoMetrics, features |-> << >>, frame |-> << >>]

Train(i, X, y) ==
    /\ est' = [est EXCEPT ![i] = TrainedFields(est[i], X, y)]
    /\ ret' = Returned("train", i, IF FitRaises(X, y) THEN "ValueError" ELSE "None")
    /\ UNCHANGED files

(***************************************************************************)
(* PricePredictor.predict.  The argument is a dict (made into a DataFrame  *)
(* of one row) or a DataFrame; either way features_df is a sequence of     *)
(* rows over the same columns.                                             *)
(***************************************************************************)
\* The draws of the standard normal the model takes: the usual ones and one
\* far in the lower tail.
ZDraws == {-9, -1, 0, 1}

\* features_df[feature] = 0 for each training feature that is no column
WithDefaults(features_df, names) ==
    [k \in 1..Len(features_df) |->
        [c \in (DOMAIN features_df[k]) \cup names |->
            IF c \in DOMAIN features_df[k] THEN features_df[k][c] ELSE Num(0)]]

\* The values a fitted forest can return for a row.
ForestOutputs(m) == {m.lo, m.hi, (m.lo + m.hi) \div 2}

\* Pipeline.predict raises: not fitted, no row, a numeric column holding
\* text (the scaler cannot convert it), a text column holding a number (the
\* one-hot encoder cannot compare it with its categories, which are
\* strings), or a numeric column holding nan (the forest rejects it).
PipelineError(m, X) ==
    IF ~m.fitted THEN "NotFittedError"
    ELSE IF Len(X) = 0 THEN "ValueError"
    ELSE IF \E k \in 1..Len(X) : \E c \in NumericFeatures \cap DOMAIN X[k] :
                X[k][c].t = "str"
         THEN "ValueError"
    ELSE IF \E k \in 1..Len(X) : \E c \in CategoricalFeatures \cap DOMAIN X[k] :
                IsNum(X[k][c])
         THEN "TypeError"
    ELSE IF \E k \in 1..Len(X) : \E c \in NumericFeatures \cap DOMAIN X[k] :
                ~IsNum(X[k][c])
         THEN "ValueError"
    ELSE "None"

\* lines 106-117: the dict built from the point estimate
ResultOf(cell) == IF cell.t = "nan" THEN NaNResult ELSE PredictionResult(cell.v)

\* A predict whose MockModel has no except clause.
PredictCallPropagating(e, features, fout, z) ==
    IF ~e.model_trained
    THEN [err |-> "NotTrained", result |-> NoResult, frame |-> << >>]
    ELSE IF e.features.none
    THEN [err |-> "TypeError", result |-> NoResult, frame |-> << >>]
    ELSE LET features_df == WithDefaults(features, e.features.names) IN
         IF e.model.kind = "MockModel" /\ MockRaises(features_df)
         THEN [err |-> "TypeError", result |-> NoResult, frame |-> features_df]
         ELSE IF e.model.kind = "MockModel"
         THEN [err |-> "None", result |-> ResultOf(MockPredict(features_df, z)),
               frame |-> features_df]
         ELSE IF PipelineError(e.model, features_df) # "None"
         THEN [err |-> PipelineError(e.model, features_df), result |-> NoResult,
               frame |-> features_df]
         ELSE [err |-> "None", result |-> PredictionResult(fout),
               frame |-> features_df]

\* predict's outcome on instance fields e: the error raised or the dict
\* returned; fout is the forest's value for the first row, z the noise draw.
PredictCall(e, features, fout, z) ==
    IF ~e.model_trained
    THEN [err |-> "NotTrained", result |-> NoResult, frame |-> << >>]
    ELSE IF e.features.none
    THEN [err |-> "TypeError", result |-> NoResult, frame |-> << >>]
    ELSE LET features_df == WithDefaults(features, e.features.names) IN
         IF e.model.kind = "MockModel"
         THEN [err |-> "None", result |-> ResultOf(MockPredict(features_df, z)),
               frame |-> features_df]
         ELSE IF PipelineError(e.model, features_df) # "None"
         THEN [err |-> PipelineError(e.model, features_df), result |-> NoResult,
               frame |-> features_df]
         ELSE [err |-> "None", result |-> PredictionResult(fout),
               frame |-> features_df]

Row(sf, bd, ba) == [square_feet |-> sf, bedrooms |-> bd, bathrooms |-> ba]

\* A record with every feature of the training schema.
FullRow(sf, bd, ba) ==
    [square_feet |-> sf, bedrooms |-> bd, bathrooms |-> ba, location |-> Text,
     property_type |-> Text, year_built |-> Num(2000)]

\* The record r without the field c.
Without(r, c) == [k \in (DOMAIN r) \ {c} |-> r[k]]

PredictInputs ==
    { << FullRow(Num(2000), Num(3), Num(2)) >>,
      << Without(FullRow(Num(2000), Num(3), Num(2)), "year_built") >>,
      << Without(FullRow(Num(2000), Num(3), Num(2)), "location") >>,
      << [square_feet |-> Num(2000), bathrooms |-> Num(2)] >>,
      << Row(Text, Num(3), Num(2)) >>,
      << Row(NaN, Num(3), Num(2)) >>,
      << Row(Num(-1000), Num(1), Num(1)) >>,
      << FullRow(Num(2000), Num(3), Num(2)), FullRow(Num(1000), Num(1), Num(1)) >>,
      << FullRow(Num(2000), Num(3), Num(2)), FullRow(Text, Num(3), Num(2)) >> }

Predict(i, features, fout, z) ==
    /\ LET r == PredictCall(est[i], features, fout, z) IN
          ret' = [Returned("predict", i, "None") EXCEPT
                     !.features = features,
                     !.err = r.err,
                     !.result = r.result,
                     !.frame = r.frame]
    /\ UNCHANGED <<est, files>>

(***************************************************************************)
(* PricePredictor.evaluate: the residuals y_test - y_pred and the four     *)
(* metrics computed from them.  Targets and estimates are whole hundreds,  *)
(* and the squares are counted in hundreds squared.                        *)
(***************************************************************************)
MaxTest == 1

TestSets ==
    {[X |-> [k \in 1..Len(y) |-> FullRow(Num(2000), Num(3), Num(2))], y |-> y] :
        y \in SeqsUpTo(TargetValues, MaxTest) \ {<< >>}}

Hundred == 100

RECURSIVE Total(_)
Total(s) == IF s = << >> THEN 0 ELSE Head(s) + Total(Tail(s))

\* x ** 2 of a whole number of hundreds, in hundreds squared
Squared(x) == (x \div Hundred) * (x \div Hundred)

\* np.sum((y_test - y_pred) ** 2)
SumSquaredResiduals(y_test, y_pred) ==
    Total([k \in 1..Len(y_test) |-> Squared(y_test[k] - y_pred[k])])

\* np.sum((y_test - np.mean(y_test)) ** 2), times the square of len(y_test)
SumSquaredDeviations(y_test) ==
    LET sum == Total(y_test) IN
    Total([k \in 1..Len(y_test) |-> Squared(Len(y_test) * y_test[k] - sum)])

\* line 140: 1 - res / (tot / nn), for the sum res of the squared residuals
\* and the sum tot / nn of the squared deviations; the division of floats
\* gives nan for 0 / 0 and inf for x / 0 and raises nothing.
RSquared(res, tot, nn) ==
    IF tot = 0
    THEN IF res = 0 THEN NanMetric ELSE NegInfMetric
    ELSE Frac(tot - res * nn, tot)

\* lines 137-147
MetricsOf(y_test, y_pred) ==
    LET n   == Len(y_test)
        r   == [k \in 1..n |-> y_test[k] - y_pred[k]]
        res == SumSquaredResiduals(y_test, y_pred)
        tot == SumSquaredDeviations(y_test)
    IN  [n |-> n,
         residuals |-> r,
         y_test |-> y_test,
         mse |-> Frac(res, n),
         rmse |-> SqrtOf(Frac(res, n)),
         mae |-> Frac(Total([k \in 1..n |-> Abs(r[k])]), n),
         r2 |-> RSquared(res, tot, n * n)]

\* y_pred = self.model.predict(X_test): one value per row from a pipeline,
\* one value in all from the MockModel (broadcast against y_test).
EvaluateCall(e, X_test, y_test, y_pred, z) ==
    IF ~e.model_trained
    THEN [err |-> "NotTrained", metrics |-> NoMetrics]
    ELSE IF e.model.kind = "MockModel"
    THEN [err |-> "None",
          metrics |-> MetricsOf(y_test,
                         [k \in 1..Len(y_test) |-> MockPredict(X_test, z).v])]
    ELSE IF PipelineError(e.model, X_test) # "None"
    THEN [err |-> PipelineError(e.model, X_test), metrics |-> NoMetrics]
    ELSE [err |-> "None", metrics |-> MetricsOf(y_test, y_pred)]

Evaluate(i, X_test, y_test, y_pred, z) ==
    /\ LET r == EvaluateCall(est[i], X_test, y_test, y_pred, z) IN
          ret' = [Returned("evaluate", i, "None") EXCEPT
                     !.err = r.err,
                     !.metrics = r.metrics]
    /\ UNCHANGED <<est, files>>

(***************************************************************************)
(* save_model and load_model.  joblib.dump opens the file for writing and  *)
(* then pickles: the MockModel, a class local to get_demo_model, cannot be *)
(* pickled, so the dump raises and leaves a file that cannot be loaded.    *)
(***************************************************************************)
DumpRaises(m) == m.kind = "MockModel"

DumpedFile(m) ==
    IF DumpRaises(m)
    THEN [exists |-> TRUE, readable |-> FALSE, content |-> NoModel]
    ELSE [exists |-> TRUE, readable |-> TRUE, content |-> m]

\* A save_model that dumps before it looks at model_trained.
SaveModelDumpFirst(i, filepath) ==
    /\ files' = [files EXCEPT ![filepath] = DumpedFile(est[i].model)]
    /\ ret' = [Returned("save_model", i,
                   IF ~est[i].model_trained THEN "NotTrained"
                   ELSE IF DumpRaises(est[i].model) THEN "PicklingError"
                   ELSE "None") EXCEPT !.path = filepath]
    /\ UNCHANGED est

SaveModel(i, filepath) ==
    IF ~est[i].model_trained
    THEN /\ ret' = [Returned("save_model", i, "NotTrained") EXCEPT !.path = filepath]
         /\ UNCHANGED <<est, files>>
    ELSE /\ files' = [files EXCEPT ![filepath] = DumpedFile(est[i].model)]
         /\ ret' = [Returned("save_model", i,
                        IF DumpRaises(est[i].model) THEN "PicklingError" ELSE "None")
                     EXCEPT !.path = filepath]
         /\ UNCHANGED est

\* The fields of the instance after load_model on an existing file.
LoadedFields(e, file) ==
    IF file.readable
    THEN [e EXCEPT !.model = file.content, !.model_trained = TRUE]
    ELSE e

\* A load_model that forgets the model it holds before it looks for the file.
LoadModelClearing(i, filepath) ==
    IF files[filepath].exists
    THEN /\ est' = [est EXCEPT ![i] = LoadedFields(est[i], files[filepath])]
         /\ ret' = [Returned("load_model", i,
                        IF files[filepath].readable THEN "None" ELSE "EOFError")
                     EXCEPT !.path = filepath]
         /\ UNCHANGED files
    ELSE /\ est' = [est EXCEPT ![i].model = NoModel, ![i].model_trained = FALSE]
         /\ ret' = [Returned("load_model", i, "FileNotFoundError")
                     EXCEPT !.path = filepath]
         /\ UNCHANGED files

LoadModel(i, filepath) ==
    IF files[filepath].exists
    THEN /\ est' = [est EXCEPT ![i] = LoadedFields(est[i], files[filepath])]
         /\ ret' = [Returned("load_model", i,
                        IF files[filepath].readable THEN "None" ELSE "EOFError")
                     EXCEPT !.path = filepath]
         /\ UNCHANGED files
    ELSE /\ ret' = [Returned("load_model", i, "FileNotFoundError")
                     EXCEPT !.path = filepath]
         /\ UNCHANGED <<est, files>>

(***************************************************************************)
(* get_demo_model: a new PricePredictor whose model is the MockModel.      *)
(* Constructing an instance is modelled as taking one that is still as     *)
(* __init__ left it.                                                       *)
(***************************************************************************)
DemoPredictor ==
    [model |-> [kind |-> "MockModel", fitted |-> TRUE, lo |-> 0, hi |-> 0],
     preprocessor |-> "None",
     features |-> [none |-> FALSE, names |-> FeatureNames],
     model_trained |-> TRUE]

GetDemoModel(i) ==
    /\ est[i] = NewPredictor
    /\ est' = [est EXCEPT ![i] = DemoPredictor]
    /\ ret' = Returned("get_demo_model", i, "None")
    /\ UNCHANGED files

InitSession ==
    /\ active_page = "Home"
    /\ nav_input = ""
    /\ recent_predictions = << >>
    /\ saved_properties = << >>
    /\ shown = << >>
    /\ clock = 0

InitProc ==
    /\ data = << >>
    /\ args = [op |-> "none"]
    /\ out = << >>

InitEstimatorVars ==
    /\ est = [i \in Instances |-> NewPredictor]
    /\ files = [f \in Paths |-> NoFile]
    /\ ret = Returned("init", "p", "None")

InitEstimator == InitEstimatorVars /\ InitSession /\ InitProc

\* The noise draws and forest values a call on instance fields e can consume.
DrawsOf(e) == IF e.model.kind = "MockModel" THEN ZDraws ELSE {0}

OutputsOf(e) ==
    IF e.model.kind = "Pipeline" /\ e.model.fitted
    THEN ForestOutputs(e.model) ELSE {0}

TrainStep ==
    /\ \E i \in Instances, T \in TrainSets : Train(i, T, T.y)
    /\ UNCHANGED <<sessionVars, procVars>>

PredictStep ==
    /\ \E i \in Instances, f \in PredictInputs :
          \E z \in DrawsOf(est[i]), fout \in OutputsOf(est[i]) :
             Predict(i, f, fout, z)
    /\ UNCHANGED <<sessionVars, procVars>>

EvaluateStep ==
    /\ \E i \in Instances, T \in TestSets :
          \E z \in DrawsOf(est[i]), y_pred \in [1..Len(T.y) -> OutputsOf(est[i])] :
             Evaluate(i, T.X, T.y, y_pred, z)
    /\ UNCHANGED <<sessionVars, procVars>>

SaveModelStep ==
    /\ \E i \in Instances, f \in Paths : SaveModel(i, f)
    /\ UNCHANGED <<sessionVars, procVars>>

LoadModelStep ==
    /\ \E i \in Instances, f \in Paths : LoadModel(i, f)
    /\ UNCHANGED <<sessionVars, procVars>>

GetDemoModelStep ==
    /\ \E i \in Instances : GetDemoModel(i)
    /\ UNCHANGED <<sessionVars, procVars>>

NextEstimator ==
    \/ TrainStep
    \/ PredictStep
    \/ EvaluateStep
    \/ SaveModelStep
    \/ LoadModelStep
    \/ GetDemoModelStep

SpecEstimator == InitEstimator /\ [][NextEstimator]_vars

(***************************************************************************)
(* The Streamlit session.  Every interaction of the user with a widget     *)
(* runs the script of src/app.py once from the top; a button's st.button   *)
(* call returns True only in the run its click started.  An action below   *)
(* is one interaction together with the run (and the st.rerun) it starts.  *)
(***************************************************************************)
Pages == {"Home", "Predictions", "Market Trends", "About"}

\* What the text input keyed "nav_input" can hold.
NavValues == Pages \cup {"", "Settings"}

RecentCap == 5

MaxClock == 1

SessionDraws == {0}

Details(location, property_type, square_feet, bedrooms) ==
    [location |-> location, property_type |-> property_type,
     square_feet |-> square_feet, bedrooms |-> bedrooms, bathrooms |-> 2,
     year_built |-> 2000, has_garage |-> TRUE, has_pool |-> FALSE,
     has_garden |-> TRUE, has_fireplace |-> FALSE, is_renovated |-> FALSE,
     has_view |-> FALSE]

\* Values of the form of the Home page.
FormInputs ==
    { Details("Riga Center", "Single Family Home", 2000, 3),
      Details("Teika", "Condo/Apartment", 500, 1) }

Flag(b) == IF b THEN Num(1) ELSE Num(0)

\* pd.DataFrame([features]) for the dict of the form
FrameOfDict(d) ==
    << [location |-> Text, property_type |-> Text,
        square_feet |-> Num(d.square_feet), bedrooms |-> Num(d.bedrooms),
        bathrooms |-> Num(d.bathrooms), year_built |-> Num(d.year_built),
        has_garage |-> Flag(d.has_garage), has_pool |-> Flag(d.has_pool),
        has_garden |-> Flag(d.has_garden), has_fireplace |-> Flag(d.has_fireplace),
        is_renovated |-> Flag(d.is_renovated), has_view |-> Flag(d.has_view)] >>

\* app.py lines 235-238: the page after the navigation input was read
PageAfterNav(page, nav_clicked) ==
    IF nav_clicked # "" /\ nav_clicked # page THEN nav_clicked ELSE page

\* A variant that drops the oldest entry only once the list is longer than
\* the cap.
RecentAfterPredictOffByOne(recent, entry) ==
    Append(IF Len(recent) > RecentCap THEN Tail(recent) ELSE recent, entry)

\* A variant that drops the newest entry of a full list instead of the oldest.
RecentAfterPredictDropsNewest(recent, entry) ==
    Append(IF Len(recent) >= RecentCap
           THEN SubSeq(recent, 1, Len(recent) - 1) ELSE recent, entry)

\* home.py lines 131-138: the list after one more prediction
RecentAfterPredict(recent, entry) ==
    Append(IF Len(recent) >= RecentCap THEN Tail(recent) ELSE recent, entry)

\* home.py lines 187-193: the saved list after display_prediction_result
SavedAfterDisplay(saved, property_details, result, save_clicked) ==
    IF save_clicked /\ \A k \in 1..Len(saved) : saved[k].property # property_details
    THEN Append(saved, [property |-> property_details, prediction |-> result,
                        saved_on |-> clock])
    ELSE saved

\* dashboard.py lines 48-49: Clear All Saved Properties, a button that
\* display_saved_properties draws only when the list is not empty (line 40)
SavedAfterClearAll(saved) == << >>

\* dashboard.py lines 102-103: Remove Property k, drawn once for each entry
SavedAfterRemove(saved, k) ==
    SubSeq(saved, 1, k - 1) \o SubSeq(saved, k + 1, Len(saved))

\* One run of pages.home.show: the body of the Predict Price branch runs
\* only when that button was the one clicked.
HomeRun(predict_clicked, save_clicked, property_details, z) ==
    IF predict_clicked
    THEN LET result == PredictCall(DemoPredictor, FrameOfDict(property_details),
                                   0, z).result IN
         /\ saved_properties' =
               SavedAfterDisplay(saved_properties, property_details, result,
                                 save_clicked)
         /\ recent_predictions' =
               RecentAfterPredict(recent_predictions,
                   [property |-> property_details, prediction |-> result,
                    timestamp |-> clock])
         /\ shown' = << [property |-> property_details, prediction |-> result] >>
    ELSE /\ shown' = << >>
         /\ UNCHANGED <<saved_properties, recent_predictions>>

\* The user sets the navigation input.
NavInput ==
    /\ \E v \in NavValues :
          /\ nav_input' = v
          /\ active_page' = PageAfterNav(active_page, v)
    /\ shown' = << >>
    /\ UNCHANGED <<recent_predictions, saved_properties, clock, estVars, procVars>>

\* The user clicks Predict Price on the Home page.
ClickPredict ==
    /\ active_page = "Home"
    /\ \E d \in FormInputs, z \in SessionDraws : HomeRun(TRUE, FALSE, d, z)
    /\ UNCHANGED <<active_page, nav_input, clock, estVars, procVars>>

\* The user clicks Save This Property, which the last run displayed.
ClickSave ==
    /\ active_page = "Home"
    /\ shown # << >>
    /\ HomeRun(FALSE, TRUE, shown[1].property, 0)
    /\ UNCHANGED <<active_page, nav_input, clock, estVars, procVars>>

\* The user changes a widget of the form of the Home page.
ChangeForm ==
    /\ active_page = "Home"
    /\ \E d \in FormInputs : HomeRun(FALSE, FALSE, d, 0)
    /\ UNCHANGED <<active_page, nav_input, clock, estVars, procVars>>

\* The user clicks Clear Recent Predictions on the dashboard.
ClickClearRecent ==
    /\ active_page = "About"
    /\ recent_predictions # << >>
    /\ recent_predictions' = << >>
    /\ shown' = << >>
    /\ UNCHANGED <<active_page, nav_input, saved_properties, clock, estVars, procVars>>

\* A second passes.
Tick ==
    /\ clock < MaxClock
    /\ clock' = clock + 1
    /\ UNCHANGED <<active_page, nav_input, recent_predictions, saved_properties,
                   shown, estVars, procVars>>

InitSessionSpec == InitSession /\ InitEstimatorVars /\ InitProc

NextSession ==
    \/ NavInput
    \/ ClickPredict
    \/ ClickSave
    \/ ChangeForm
    \/ ClickClearRecent
    \/ Tick

SpecSession == InitSessionSpec /\ [][NextSession]_vars

(***************************************************************************)
(* DataProcessor.  A DataFrame is the sequence of its rows, each a record  *)
(* of its columns; the identifiers of a batch are distinct.  Amounts are   *)
(* small integers so that the similarity scores, which are sums of         *)
(* fractions, can be compared exactly over a common denominator.           *)
(***************************************************************************)
Property(id, location, property_type, bedrooms, bathrooms, square_feet, price) ==
    [id |-> id, location |-> location, property_type |-> property_type,
     bedrooms |-> bedrooms, bathrooms |-> bathrooms,
     square_feet |-> square_feet, price |-> price]

Pool ==
    { Property(1, "Riga Center", "Condo/Apartment", 2, 1, 10, 20),
      Property(2, "Teika", "Townhouse", 3, 2, 20, 30),
      Property(3, "Riga Center", "Townhouse", 3, 2, 20, 30),
      Property(4, "Teika", "Condo/Apartment", 1, 1, 10, 10),
      Property(5, "Jugla", "Townhouse", 0, 0, 0, 0) }

\* The batches of at most n records with distinct identifiers.
Batches(n) ==
    {b \in SeqsUpTo(Pool, n) : \A j, k \in 1..Len(b) : j # k => b[j].id # b[k].id}

(***************************************************************************)
(* filter_properties.  A criterion of the filters dict is absent, None or  *)
(* a value.                                                                *)
(***************************************************************************)
MaxFilterRows == 2

MaxKeys == 2

Absent(v) == [present |-> FALSE, none |-> TRUE, v |-> v]

IsNone(v) == [present |-> TRUE, none |-> TRUE, v |-> v]

Given(v) == [present |-> TRUE, none |-> FALSE, v |-> v]

Options(v) == {Absent(v), IsNone(v), Given(v)}

CriteriaKeys ==
    {"min_price", "max_price", "min_bedrooms", "min_bathrooms",
     "min_square_feet", "location", "property_type"}

\* The filters dicts with at most n keys; "min_year_built" is a key that
\* filter_properties does not know.
Criteria(n) ==
    {c \in [min_price : Options(20), max_price : Options(20),
            min_bedrooms : Options(2), min_bathrooms : Options(2),
            min_square_feet : Options(20),
            location : Options("Riga Center") \cup {Given("All")},
            property_type : Options("Townhouse") \cup {Given("All")},
            min_year_built : {Absent(2000), Given(2000)}] :
        Cardinality({k \in DOMAIN c : c[k].present}) <= n}

\* 'key' in filters and filters['key'] is not None
Supplied(filters, key) == filters[key].present /\ ~filters[key].none

\* lines 163-164
MinPriceStep(df, filters) ==
    IF Supplied(filters, "min_price")
    THEN SelectSeq(df, LAMBDA r : r.price >= filters.min_price.v)
    ELSE df

\* A maximum price that is exclusive.
MaxPriceStepExclusive(df, filters) ==
    IF Supplied(filters, "max_price")
    THEN SelectSeq(df, LAMBDA r : r.price < filters.max_price.v)
    ELSE df

\* lines 166-167
MaxPriceStep(df, filters) ==
    IF Supplied(filters, "max_price")
    THEN SelectSeq(df, LAMBDA r : r.price <= filters.max_price.v)
    ELSE df

\* lines 169-170
MinBedroomsStep(df, filters) ==
    IF Supplied(filters, "min_bedrooms")
    THEN SelectSeq(df, LAMBDA r : r.bedrooms >= filters.min_bedrooms.v)
    ELSE df

\* lines 172-173
MinBathroomsStep(df, filters) ==
    IF Supplied(filters, "min_bathrooms")
    THEN SelectSeq(df, LAMBDA r : r.bathrooms >= filters.min_bathrooms.v)
    ELSE df

\* lines 175-176
MinSquareFeetStep(df, filters) ==
    IF Supplied(filters, "min_square_feet")
    THEN SelectSeq(df, LAMBDA r : r.square_feet >= filters.min_square_feet.v)
    ELSE df

\* A location step that reads an omitted location with filters.get and
\* matches the records against the None it gets.
LocationStepOmittedMatches(df, filters) ==
    IF Supplied(filters, "location") /\ filters.location.v = "All"
    THEN df
    ELSE SelectSeq(df, LAMBDA r :
             Supplied(filters, "location") /\ r.location = filters.location.v)

\* lines 178-179
LocationStep(df, filters) ==
    IF Supplied(filters, "location") /\ filters.location.v # "All"
    THEN SelectSeq(df, LAMBDA r : r.location = filters.location.v)
    ELSE df

\* lines 181-182
PropertyTypeStep(df, filters) ==
    IF Supplied(filters, "property_type") /\ filters.property_type.v # "All"
    THEN SelectSeq(df, LAMBDA r : r.property_type = filters.property_type.v)
    ELSE df

\* filter_properties: the copy of the data narrowed by one criterion after
\* the other.
FilterProperties(df, filters) ==
    PropertyTypeStep(
        LocationStep(
            MinSquareFeetStep(
                MinBathroomsStep(
                    MinBedroomsStep(
                        MaxPriceStep(MinPriceStep(df, filters), filters),
                        filters),
                    filters),
                filters),
            filters),
        filters)

InitFilter ==
    /\ data \in Batches(MaxFilterRows)
    /\ args = [op |-> "none"]
    /\ out = << >>
    /\ InitEstimatorVars
    /\ InitSession

\* One call of DataProcessor.filter_properties(data, filters).
FilterStep ==
    /\ args.op = "none"
    /\ \E filters \in Criteria(MaxKeys) :
          /\ args' = [op |-> "filter", filters |-> filters]
          /\ out' = FilterProperties(data, filters)
    /\ UNCHANGED <<data, estVars, sessionVars>>

NextFilter == FilterStep

SpecFilter == InitFilter /\ [][NextFilter]_vars

(***************************************************************************)
(* get_similar_properties.  A feature's distance is a fraction with the    *)
(* column's maximum as denominator; float division by a zero maximum gives *)
(* inf for a nonzero numerator and nan for a zero one, and the row sum     *)
(* skips nan.  The similarity score of a row is therefore inf, or a        *)
(* fraction whose denominator (100 times the product of the nonzero        *)
(* maxima) is the same for all rows of the batch: num is its numerator.    *)
(***************************************************************************)
MaxSimilarRows == 3

MaxN == 2

WeightedFeatures == {"price", "square_feet", "bedrooms", "bathrooms"}

\* The weights 0.4, 0.3, 0.15 and 0.15, in hundredths.
Weight(feature) ==
    CASE feature = "price" -> 40
      [] feature = "square_feet" -> 30
      [] feature = "bedrooms" -> 15
      [] feature = "bathrooms" -> 15

\* The reference properties: a record of the sample data, a record with
\* the fields of one but no id, and the dict of the form (no id, no price).
References ==
    Pool \cup
    { [price |-> 30, square_feet |-> 20, bedrooms |-> 3, bathrooms |-> 2],
      [location |-> "Teika", square_feet |-> 10, bedrooms |-> 2, bathrooms |-> 1] }

Columns(df) == IF df = << >> THEN {} ELSE DOMAIN df[1]

\* feature in df.columns and feature in reference_property
Used(df, ref, feature) == feature \in Columns(df) /\ feature \in DOMAIN ref

\* df[feature].max()
ColMax(df, feature) == Max({df[k][feature] : k \in 1..Len(df)})

\* abs(df[feature] - ref_value), where the quotient by the maximum is finite
Delta(df, ref, r, feature) ==
    IF Used(df, ref, feature) /\ ColMax(df, feature) # 0
    THEN Abs(r[feature] - ref[feature])
    ELSE 0

\* The denominator of the feature's distance, where it is finite.
Den(df, ref, feature) ==
    IF Used(df, ref, feature) /\ ColMax(df, feature) # 0
    THEN ColMax(df, feature)
    ELSE 1

\* The feature's weighted distance over the common denominator.
Term(df, ref, r, feature) ==
    LET others == WeightedFeatures \ {feature}
        a == CHOOSE x \in others : TRUE
        b == CHOOSE x \in others \ {a} : TRUE
        c == CHOOSE x \in others \ {a, b} : TRUE
    IN Weight(feature) * Delta(df, ref, r, feature)
         * Den(df, ref, a) * Den(df, ref, b) * Den(df, ref, c)

\* A column of the caller whose name ends with _score: line 218 takes every
\* column of that ending for a score column, so such a column is summed
\* with the weighted distances.  Over the common denominator:
CallerScore(df, ref, r) ==
    IF "walk_score" \in Columns(df)
    THEN 100 * r["walk_score"] * Den(df, ref, "price") * Den(df, ref, "square_feet")
           * Den(df, ref, "bedrooms") * Den(df, ref, "bathrooms")
    ELSE 0

\* df[score_columns].sum(axis=1) for the row r
SimilarityScore(df, ref, r) ==
    [inf |-> \E f \in WeightedFeatures :
                /\ Used(df, ref, f)
                /\ ColMax(df, f) = 0
                /\ r[f] # ref[f],
     num |-> Term(df, ref, r, "price") + Term(df, ref, r, "square_feet")
               + Term(df, ref, r, "bedrooms") + Term(df, ref, r, "bathrooms")
               + CallerScore(df, ref, r)]

ScoreLess(a, b) == IF a.inf THEN FALSE ELSE b.inf \/ a.num < b.num

ScoreEqual(a, b) == ~ScoreLess(a, b) /\ ~ScoreLess(b, a)

DiffName(feature) ==
    CASE feature = "price" -> "price_diff"
      [] feature = "square_feet" -> "square_feet_diff"
      [] feature = "bedrooms" -> "bedrooms_diff"
      [] feature = "bathrooms" -> "bathrooms_diff"

ScoreName(feature) ==
    CASE feature = "price" -> "price_score"
      [] feature = "square_feet" -> "square_feet_score"
      [] feature = "bedrooms" -> "bedrooms_score"
      [] feature = "bathrooms" -> "bathrooms_score"

\* The column names of the model that end with _diff or with _score.
EndsWithDiffOrScore(col) ==
    \/ col = "similarity_score"
    \/ col = "walk_score"
    \/ \E f \in WeightedFeatures : col = DiffName(f) \/ col = ScoreName(f)

\* The row r with the columns lines 214-219 add to it: each distance and
\* each weighted distance as <<numerator, denominator>>.
ScoredRow(df, ref, r) ==
    LET used == {f \in WeightedFeatures : Used(df, ref, f)}
        added == {DiffName(f) : f \in used} \cup {ScoreName(f) : f \in used}
                    \cup {"similarity_score"}
    IN [c \in (DOMAIN r) \cup added |->
          IF c = "similarity_score" THEN SimilarityScore(df, ref, r)
          ELSE IF \E f \in used : c = DiffName(f)
          THEN LET f == CHOOSE f \in used : c = DiffName(f)
               IN << Abs(r[f] - ref[f]), ColMax(df, f) >>
          ELSE IF \E f \in used : c = ScoreName(f)
          THEN LET f == CHOOSE f \in used : c = ScoreName(f)
               IN << Weight(f) * Abs(r[f] - ref[f]), 100 * ColMax(df, f) >>
          ELSE r[c]]

\* line 227: the drop of the columns that end with _diff or _score
DropScoring(row) ==
    [c \in {c \in DOMAIN row : ~EndsWithDiffOrScore(c)} |-> row[c]]

\* A step that leaves the reference property in.
CandidatesKeepingReference(df, ref) == {k \in 1..Len(df) : TRUE}

\* lines 222-223: the rows left when the reference property is filtered out
Candidates(df, ref) ==
    {k \in 1..Len(df) : ~("id" \in DOMAIN ref /\ "id" \in Columns(df)
                            /\ df[k].id = ref.id)}

\* sort_values('similarity_score'): pandas sorts with kind='quicksort', which
\* is not stable, so every order that is ascending in the score can result.
SortValues(df, ref, rows) ==
    {o \in [1..Cardinality(rows) -> rows] :
        /\ \A j, k \in 1..Cardinality(rows) : j # k => o[j] # o[k]
        /\ \A j, k \in 1..Cardinality(rows) :
              j < k => ~ScoreLess(SimilarityScore(df, ref, df[o[k]]),
                                  SimilarityScore(df, ref, df[o[j]]))}

\* .head(n)
Head_(order, n) == SubSeq(order, 1, IF n < Len(order) THEN n ELSE Len(order))

\* The DataFrames get_similar_properties(df, ref, n) can return.
GetSimilarProperties(df, ref, n) ==
    {[k \in 1..Len(Head_(o, n)) |->
         DropScoring(ScoredRow(df, ref, df[Head_(o, n)[k]]))] :
        o \in SortValues(df, ref, Candidates(df, ref))}

InitSimilar ==
    /\ data \in Batches(MaxSimilarRows)
    /\ args = [op |-> "none"]
    /\ out = << >>
    /\ InitEstimatorVars
    /\ InitSession

\* One call of DataProcessor.get_similar_properties(data, ref, n).
GetSimilarStep ==
    /\ args.op = "none"
    /\ \E ref \in References, n \in 0..MaxN :
          /\ args' = [op |-> "similar", ref |-> ref, n |-> n]
          /\ out' \in GetSimilarProperties(data, ref, n)
    /\ UNCHANGED <<data, estVars, sessionVars>>

\* The batch b with one more column of the caller, walk_score.
WithWalkScore(b) ==
    [k \in 1..Len(b) |->
        [c \in (DOMAIN b[k]) \cup {"walk_score"} |->
            IF c = "walk_score" THEN b[k].id ELSE b[k][c]]]

\* Batches that have the columns of the sample data and a walk_score.
InitSimilarScored ==
    /\ data \in {WithWalkScore(b) : b \in Batches(MaxSimilarRows)}
    /\ args = [op |-> "none"]
    /\ out = << >>
    /\ InitEstimatorVars
    /\ InitSession

NextSimilar == GetSimilarStep

SpecSimilar == InitSimilar /\ [][NextSimilar]_vars

SpecSimilarScored == InitSimilarScored /\ [][NextSimilar]_vars

(***************************************************************************)
(* clean_property_data.  Numbers of the cleaned columns are counted in     *)
(* quarters of a unit (a median of an even number of values is a half, a   *)
(* median of medians a quarter).  The calls data[col].fillna(...,          *)
(* inplace=True) are modelled as changing data, as they do in the pandas   *)
(* versions (before 3.0) the code was written for.                         *)
(***************************************************************************)
Quarters == 4

Number(n) == Num(n * Quarters)

current_year == 2026

MaxCleanRows == 3

Digits == <<"0", "1", "2", "3", "4", "5", "6", "7", "8", "9">>

IsDigit(c) == c \in Range(Digits)

DigitValue(c) == (CHOOSE d \in 1..10 : Digits[d] = c) - 1

RECURSIVE DecimalValue(_)
DecimalValue(s) ==
    IF s = << >> THEN 0
    ELSE DecimalValue(SubSeq(s, 1, Len(s) - 1)) * 10 + DigitValue(s[Len(s)])

RECURSIVE Pow10(_)
Pow10(k) == IF k = 0 THEN 1 ELSE 10 * Pow10(k - 1)

\* float(s) for a text of digits and points: a ValueError (the cell nan
\* here) unless there is a digit and at most one point.
FloatOf(s) ==
    LET points == {i \in 1..Len(s) : s[i] = "."}
        p == IF points = {} THEN Len(s) + 1 ELSE Min(points)
        whole == SubSeq(s, 1, p - 1)
        frac == SubSeq(s, p + 1, Len(s))
    IN IF Cardinality(points) > 1 \/ Len(whole) + Len(frac) = 0
       THEN NaN
       ELSE Num(DecimalValue(whole) * Quarters
                  + (DecimalValue(frac) * Quarters) \div Pow10(Len(frac)))

\* _extract_price: re.sub(r'[^\d.]', '', s), then float
ExtractPrice(cell) ==
    IF cell.t # "str" THEN cell
    ELSE FloatOf(SelectSeq(cell.s, LAMBDA c : IsDigit(c) \/ c = "."))

\* _extract_numeric: the first match of \d+\.?\d* in the text, then float
ExtractNumeric(cell) ==
    IF cell.t # "str" THEN cell
    ELSE LET s == cell.s
             starts == {i \in 1..Len(s) : IsDigit(s[i])}
             i == Min(starts)
             j == Max({m \in i..Len(s) : \A k \in i..m : IsDigit(s[k])})
             e == IF j < Len(s) /\ s[j + 1] = "."
                  THEN Max({m \in (j + 1)..Len(s) :
                               \A k \in (j + 2)..m : IsDigit(s[k])})
                  ELSE j
         IN IF starts = {} THEN NaN ELSE FloatOf(SubSeq(s, i, e))

\* pd.to_numeric(errors='coerce') on one cell (texts with a sign, an
\* exponent or blanks are not among the inputs)
ToNumeric(cell) ==
    IF cell.t # "str" THEN cell
    ELSE IF \A k \in 1..Len(cell.s) : IsDigit(cell.s[k]) \/ cell.s[k] = "."
    THEN FloatOf(cell.s)
    ELSE NaN

ColumnOf(df, c) == [k \in 1..Len(df) |-> df[k][c]]

\* data[col].dtype == 'object'
IsObject(col) == \E k \in 1..Len(col) : col[k].t = "str"

\* Series.median(): nan when the column holds no number
Median(col) ==
    LET nums == SelectSeq(col, IsNum)
        sorted == SortSeq([k \in 1..Len(nums) |-> nums[k].v], <)
        n == Len(sorted)
    IN IF n = 0 THEN NaN
       ELSE IF n % 2 = 1 THEN Num(sorted[(n + 1) \div 2])
       ELSE Num((sorted[n \div 2] + sorted[n \div 2 + 1]) \div 2)

FillNa(col, value) ==
    [k \in 1..Len(col) |-> IF col[k].t = "nan" THEN value ELSE col[k]]

Unknown == Str(<<"U", "n", "k", "n", "o", "w", "n">>)

\* lines 24-28: the missing values of one column
FillMissing(col) ==
    IF IsObject(col) THEN FillNa(col, Unknown) ELSE FillNa(col, Median(col))

\* lines 44-48: the year_built column
ConvertYear(col) ==
    LET numeric == [k \in 1..Len(col) |-> ToNumeric(col[k])]
        valid == [k \in 1..Len(col) |->
                    IF IsNum(numeric[k]) /\ numeric[k].v > current_year * Quarters
                    THEN NaN ELSE numeric[k]]
    IN FillNa(valid, Median(valid))

\* What clean_property_data makes of the column named c.
CleanColumn(c, col) ==
    LET filled == FillMissing(col) IN
    IF c = "price"
    THEN IF IsObject(filled)
         THEN [k \in 1..Len(col) |-> ExtractPrice(filled[k])] ELSE filled
    ELSE IF c \in {"square_feet", "bedrooms", "bathrooms"}
    THEN IF IsObject(filled)
         THEN [k \in 1..Len(col) |-> ExtractNumeric(filled[k])] ELSE filled
    ELSE IF c = "year_built" THEN ConvertYear(filled)
    ELSE filled

\* clean_property_data(df): the cleaned copy
CleanPropertyData(df) ==
    [k \in 1..Len(df) |->
        [c \in DOMAIN df[k] |-> CleanColumn(c, ColumnOf(df, c))[k]]]

RawRecord(price, square_feet, bedrooms, bathrooms, year_built, location) ==
    [price |-> price, square_feet |-> square_feet, bedrooms |-> bedrooms,
     bathrooms |-> bathrooms, year_built |-> year_built, location |-> location]

\* Raw records: numbers, missing values, texts with a number in them and
\* texts without, and a year in the future.
RawPool ==
    { RawRecord(Number(1000), Number(100), Number(2), Number(1), Number(1950),
                Str(<<"A">>)),
      RawRecord(NaN, NaN, NaN, NaN, NaN, NaN),
      RawRecord(Str(<<"$", "3", ",", "0", "0", "0">>),
                Str(<<"1", "5", "0", " ", "m", "2">>),
                Str(<<"3", " ", "b", "e", "d", "s">>), Str(<<"2", ".", "5">>),
                Str(<<"2", "0", "0", "5">>), Str(<<"B">>)),
      RawRecord(Text, Text, Text, Text, Text, Str(<<"A">>)),
      RawRecord(Number(2000), Number(200), Number(4), Number(3), Number(2100),
                Str(<<"B">>)),
      RawRecord(Number(4000), Number(50), Number(1), Number(1), Number(2000),
                NaN) }

InitClean ==
    /\ data \in SeqsUpTo(RawPool, MaxCleanRows)
    /\ args = [op |-> "none"]
    /\ out = << >>
    /\ InitEstimatorVars
    /\ InitSession

\* One call of DataProcessor.clean_property_data(data).
CleanStep ==
    /\ args.op = "none"
    /\ args' = [op |-> "clean", first |-> << >>]
    /\ out' = CleanPropertyData(data)
    /\ UNCHANGED <<data, estVars, sessionVars>>

\* The caller cleans the batch it got from clean_property_data once more.
CleanAgainStep ==
    /\ args.op = "clean"
    /\ args' = [op |-> "clean_again", first |-> out]
    /\ out' = CleanPropertyData(out)
    /\ UNCHANGED <<data, estVars, sessionVars>>

NextClean == CleanStep \/ CleanAgainStep

SpecClean == InitClean /\ [][NextClean]_vars

(***************************************************************************)
(* generate_market_insights.  A float is a fraction num/den, inf (num is   *)
(* its sign) or nan; date_listed is the number of the month of listing.    *)
(***************************************************************************)
MaxInsightRows == 2

Ratio(num, den) == [kind |-> "num", num |-> num, den |-> den]

Infinite(sign) == [kind |-> "inf", num |-> sign, den |-> 1]

NotANumber == [kind |-> "nan", num |-> 0, den |-> 1]

\* a / b in floats: inf or nan when b is zero
Quotient(a, b) ==
    IF b # 0 THEN Ratio(a, b)
    ELSE IF a = 0 THEN NotANumber
    ELSE Infinite(IF a > 0 THEN 1 ELSE -1)

RECURSIVE SumOf(_)
SumOf(xs) == IF xs = << >> THEN 0 ELSE Head(xs) + SumOf(Tail(xs))

RECURSIVE SumRatios(_)
SumRatios(qs) ==
    IF qs = << >> THEN Ratio(0, 1)
    ELSE Ratio(Head(qs).num * SumRatios(Tail(qs)).den
                 + SumRatios(Tail(qs)).num * Head(qs).den,
               Head(qs).den * SumRatios(Tail(qs)).den)

\* Series.mean() of integers: nan when there is none
Mean(xs) == IF xs = << >> THEN NotANumber ELSE Ratio(SumOf(xs), Len(xs))

\* Series.mean() of floats: nan is skipped, inf makes the mean inf (nan when
\* both signs occur)
MeanOfFloats(qs) ==
    LET present == SelectSeq(qs, LAMBDA q : q.kind # "nan")
        finite == SelectSeq(qs, LAMBDA q : q.kind = "num")
        signs == {present[k].num : k \in {k \in 1..Len(present) : present[k].kind = "inf"}}
    IN IF present = << >> \/ Cardinality(signs) = 2 THEN NotANumber
       ELSE IF Cardinality(signs) = 1 THEN Infinite(CHOOSE x \in signs : TRUE)
       ELSE Ratio(SumRatios(finite).num, SumRatios(finite).den * Len(finite))

\* A record of the data with a month of listing.
Listing(id, location, property_type, square_feet, price, date_listed) ==
    [id |-> id, location |-> location, property_type |-> property_type,
     square_feet |-> square_feet, price |-> price, date_listed |-> date_listed]

Listings ==
    { Listing(1, "Riga Center", "Condo/Apartment", 10, 20, 1),
      Listing(2, "Teika", "Townhouse", 20, 30, 1),
      Listing(3, "Teika", "Townhouse", 20, 30, 3),
      Listing(4, "Jugla", "Townhouse", 0, 0, 3),
      Listing(5, "Jugla", "Luxury Villa", 0, 50, 1) }

ListingColumns ==
    {"id", "location", "property_type", "square_feet", "price", "date_listed"}

\* The columns the DataFrames handed to generate_market_insights have.
InsightColumnSets ==
    { ListingColumns, ListingColumns \ {"square_feet"},
      ListingColumns \ {"location", "property_type", "date_listed"},
      ListingColumns \ {"price"} }

InsightBatches ==
    {[k \in 1..Len(b) |-> [c \in cols |-> b[k][c]]] :
        b \in {b \in SeqsUpTo(Listings, MaxInsightRows) :
                 \A j, k \in 1..Len(b) : j # k => b[j].id # b[k].id},
        cols \in InsightColumnSets}

\* value_counts() of a column: the values in an order of descending count
\* (the order of values of equal count is left to the sort)
ValueCounts(df, c) ==
    LET values == {df[k][c] : k \in 1..Len(df)}
        count(v) == Cardinality({k \in 1..Len(df) : df[k][c] = v})
    IN {o \in [1..Cardinality(values) -> values] :
          /\ \A j, k \in 1..Cardinality(values) : j # k => o[j] # o[k]
          /\ \A j, k \in 1..Cardinality(values) : j < k => count(o[j]) >= count(o[k])}

\* value_counts().to_dict()
Distribution(df, c) ==
    [v \in {df[k][c] : k \in 1..Len(df)} |->
        Cardinality({k \in 1..Len(df) : df[k][c] = v})]

\* lines 131-137: the mean price of each month from the first to the last
\* month of listing; a month without listing has the mean nan
PriceTrends(df) ==
    LET months == {df[k].date_listed : k \in 1..Len(df)}
        first == Min(months)
        priceOf(r) == r.price
        pricesIn(m) == SelectSeq(df, LAMBDA r : r.date_listed = m)
    IN [j \in 1..(Max(months) - first + 1) |->
          [date_listed |-> first + j - 1,
           price |-> Mean([k \in 1..Len(pricesIn(first + j - 1)) |->
                             pricesIn(first + j - 1)[k].price])]]

\* The dict of an empty DataFrame, and of a call that raised (err).
ZeroSummary ==
    [err |-> "None", avg_price |-> Ratio(0, 1), price_range |-> <<0, 0>>,
     avg_price_per_sqft |-> Ratio(0, 1), popular_locations |-> << >>,
     property_type_distribution |-> << >>, price_trends |-> << >>]

\* lines 104-146: the dict of a DataFrame; popular is the order of
\* value_counts() of the locations it uses.
Summary(df, popular) ==
    IF "price" \notin Columns(df)
    THEN [ZeroSummary EXCEPT !.err = "KeyError"]
    ELSE
    [err |-> "None",
     avg_price |-> Mean(ColumnOf(df, "price")),
     price_range |-> << Min(Range(ColumnOf(df, "price"))),
                        Max(Range(ColumnOf(df, "price"))) >>,
     avg_price_per_sqft |->
        IF "square_feet" \in Columns(df)
        THEN MeanOfFloats([k \in 1..Len(df) |->
                              Quotient(df[k].price, df[k].square_feet)])
        ELSE Ratio(0, 1),
     popular_locations |->
        IF "location" \in Columns(df) THEN Head_(popular, 5) ELSE << >>,
     property_type_distribution |->
        IF "property_type" \in Columns(df)
        THEN Distribution(df, "property_type") ELSE << >>,
     price_trends |->
        IF "date_listed" \in Columns(df) THEN PriceTrends(df) ELSE << >>]

\* A generate_market_insights without the test for an empty DataFrame.
GenerateMarketInsightsUnguarded(df, popular) == Summary(df, popular)

GenerateMarketInsights(df, popular) ==
    IF Len(df) = 0 THEN ZeroSummary ELSE Summary(df, popular)

\* The DataFrame of the caller after the call: line 111 adds the column
\* price_per_sqft to it.
DataAfterInsights(df) ==
    IF Len(df) # 0 /\ {"price", "square_feet"} \subseteq Columns(df)
    THEN [k \in 1..Len(df) |->
            [c \in Columns(df) \cup {"price_per_sqft"} |->
                IF c = "price_per_sqft"
                THEN Quotient(df[k].price, df[k].square_feet)
                ELSE df[k][c]]]
    ELSE df

InitInsights ==
    /\ data \in InsightBatches
    /\ args = [op |-> "none"]
    /\ out = << >>
    /\ InitEstimatorVars
    /\ InitSession

\* One call of DataProcessor.generate_market_insights(data).
InsightsStep ==
    /\ args.op = "none"
    /\ args' = [op |-> "insights"]
    /\ \E popular \in (IF "location" \in Columns(data)
                       THEN ValueCounts(data, "location") ELSE {<< >>}) :
          out' = GenerateMarketInsights(data, popular)
    /\ data' = DataAfterInsights(data)
    /\ UNCHANGED <<estVars, sessionVars>>

NextInsights == InsightsStep

SpecInsights == InitInsights /\ [][NextInsights]_vars

(***************************************************************************)
(* get_sample_data.  The generator draws the attributes of each record     *)
(* and a noise factor, computes the price from them and floors it.  The    *)
(* model takes the draws as given (data) and computes the records (out).   *)
(* bathrooms is counted in tenths, the location factor in hundredths, the  *)
(* property type factor and the noise in tenths; the amounts the price     *)
(* sums are whole multiples of 50, and the product is kept over the        *)
(* denominator PriceDen as a number of thousands.                          *)
(***************************************************************************)
MaxGenerated == 2

first_year == 1950

last_year == 2023

price_year == 2023

sample_base_price == 200000

sample_price_per_sqft == 150

sample_bedroom_value == 20000

sample_bathroom_value == 15000

depreciation == 500

garage_premium == 50000

pool_premium == 80000

garden_premium == 30000

min_price == 100000

\* location_factors, in hundredths
location_factors ==
    [l \in {"Vecriga (Old Town)", "Kengarags", "Ziepniekkalns"} |->
        CASE l = "Vecriga (Old Town)" -> 180
          [] l = "Kengarags" -> 90
          [] l = "Ziepniekkalns" -> 95]

\* property_type_factors, in tenths
property_type_factors ==
    [t \in {"Condo/Apartment", "Townhouse", "Luxury Villa"} |->
        CASE t = "Condo/Apartment" -> 10
          [] t = "Townhouse" -> 11
          [] t = "Luxury Villa" -> 20]

\* np.random.normal(1, 0.1) in tenths: the usual draws, one far in the lower
\* tail and one below zero.
NoiseDraws == {-2, 3, 10, 11}

Drawn(location, property_type, bedrooms, bathrooms, square_feet, year_built, has_garage, has_pool, has_garden) ==
    [location |-> location, property_type |-> property_type,
     bedrooms |-> bedrooms, bathrooms |-> bathrooms,
     square_feet |-> square_feet, year_built |-> year_built,
     has_garage |-> has_garage, has_pool |-> has_pool,
     has_garden |-> has_garden]

\* Attribute draws in the ranges of lines 25-34: the least and the greatest
\* of every range, and attributes in between.
DrawnAttributes ==
    { Drawn("Kengarags", "Condo/Apartment", 1, 10, 600, first_year,
            FALSE, FALSE, FALSE),
      Drawn("Vecriga (Old Town)", "Condo/Apartment", 1, 24, 3321, 1999,
            FALSE, FALSE, TRUE),
      Drawn("Ziepniekkalns", "Townhouse", 3, 15, 1000, 2020,
            TRUE, FALSE, FALSE),
      Drawn("Vecriga (Old Town)", "Luxury Villa", 6, 40, 5000, last_year,
            TRUE, TRUE, TRUE) }

Draws == {[row |-> r, noise |-> z] : r \in DrawnAttributes, z \in NoiseDraws}

\* lines 64-72: the sum in the parentheses, the age counted from the year
\* year
Subtotal(row, year) ==
    sample_base_price
    + (row.square_feet * sample_price_per_sqft)
    + (row.bedrooms * sample_bedroom_value)
    + ((row.bathrooms * sample_bathroom_value) \div 10)
    + ((year - row.year_built) * (-depreciation))
    + (IF row.has_garage THEN garage_premium ELSE 0)
    + (IF row.has_pool THEN pool_premium ELSE 0)
    + (IF row.has_garden THEN garden_premium ELSE 0)

\* line 73: the product with the two factors and the noise, in thousands,
\* as the numerator over PriceDen
PriceNum(row, year, noise) ==
    (Subtotal(row, year) \div 50) * location_factors[row.location]
        * property_type_factors[row.property_type] * noise

PriceDen == 200000

\* round(x, -3) of the float num / den thousands: to the nearest thousand,
\* a half to the even one
RoundThousands(num, den) ==
    LET q == num \div den
        r == num % den
    IN  1000 * (IF 2 * r > den \/ (2 * r = den /\ q % 2 = 1) THEN q + 1 ELSE q)

\* A price that is rounded and not floored.
SamplePriceUnfloored(row, year, noise) ==
    RoundThousands(PriceNum(row, year, noise), PriceDen)

\* line 78: max(round(x, -3), 100000) of the price computed with the age
\* counted from the year year
SamplePrice(row, year, noise) ==
    Max({RoundThousands(PriceNum(row, year, noise), PriceDen), min_price})

\* The DataFrame get_sample_data returns for the draws; date_listed, which
\* no property below reads, is left out.
GetSampleData(draws) ==
    [k \in 1..Len(draws) |->
        [c \in (DOMAIN draws[k].row) \cup {"id", "price"} |->
            IF c = "id" THEN k
            ELSE IF c = "price"
            THEN SamplePrice(draws[k].row, price_year, draws[k].noise)
            ELSE draws[k].row[c]]]

InitGenerator ==
    /\ data \in SeqsUpTo(Draws, MaxGenerated)
    /\ args = [op |-> "none"]
    /\ out = << >>
    /\ InitEstimatorVars
    /\ InitSession

\* One call of get_sample_data().
GetSampleDataStep ==
    /\ args.op = "none"
    /\ args' = [op |-> "generate"]
    /\ out' = GetSampleData(data)
    /\ UNCHANGED <<data, estVars, sessionVars>>

NextGenerator == GetSampleDataStep

SpecGenerator == InitGenerator /\ [][NextGenerator]_vars

(***************************************************************************)
(* Properties of the estimator                                             *)
(***************************************************************************)
GuardedOps == {"predict", "evaluate", "save_model"}

\* C1 (as claimed): predict, evaluate and save_model, called on an estimator
\* whose model_trained is false, raise the not-trained error and leave the
\* estimator Untrained with no model and no feature schema stored, and
\* save_model writes no file.
C1_UntrainedHoldsNothing ==
    [][(ret'.op \in GuardedOps /\ ~est[ret'.inst].model_trained)
         => /\ ret'.err = "NotTrained"
            /\ ~est'[ret'.inst].model_trained
            /\ est'[ret'.inst].model = NoModel
            /\ est'[ret'.inst].features = NoFeatures
            /\ files' = files]_vars

\* C1 (amended): predict, evaluate and save_model, called on an estimator
\* whose model_trained is false, raise the not-trained error, return
\* nothing, leave every field of every estimator as it was (model_trained
\* stays false) and write no file.
C1_UntrainedCallsFail ==
    [][(ret'.op \in GuardedOps /\ ~est[ret'.inst].model_trained)
         => /\ ret'.err = "NotTrained"
            /\ ret'.result = NoResult
            /\ ret'.metrics = NoMetrics
            /\ est' = est
            /\ files' = files
            /\ ~est'[ret'.inst].model_trained]_vars

\* C1 witness: save_model has just failed on an estimator whose model_trained
\* is false although an earlier train stored its feature names and an
\* unfitted pipeline, and no file exists.
C1_Witness ==
    /\ ret.op = "save_model"
    /\ ret.err = "NotTrained"
    /\ ~est[ret.inst].model_trained
    /\ est[ret.inst].model = UnfittedPipeline
    /\ ~est[ret.inst].features.none
    /\ \A f \in Paths : ~files[f].exists

\* C2: once model_trained is true of an estimator it is true in every later
\* state, whatever is called and whether or not the call fails.
C2_TrainedIsStable ==
    [][\A i \in Instances : est[i].model_trained => est'[i].model_trained]_vars

\* C2 witness: train has just failed on an estimator that was Trained, and
\* the estimator is still Trained.
C2_Witness ==
    /\ ret.op = "train"
    /\ ret.err = "ValueError"
    /\ est[ret.inst].model_trained

\* C3 (as claimed): every dict predict returns has
\* lower_bound <= predicted_price <= upper_bound.
C3_BandContainsEstimate ==
    (ret.op = "predict" /\ ret.err = "None")
        => /\ ~ret.result.nan
           /\ ret.result.lower_bound <= ret.result.predicted_price
           /\ ret.result.predicted_price <= ret.result.upper_bound

\* C4 (as claimed): in every dict predict returns, upper_bound minus
\* predicted_price equals predicted_price minus lower_bound, and both are
\* 10% of predicted_price.
C4_BandIsSymmetric ==
    (ret.op = "predict" /\ ret.err = "None")
        => /\ ~ret.result.nan
           /\ ret.result.upper_bound - ret.result.predicted_price
                = ret.result.predicted_price - ret.result.lower_bound
           /\ (ret.result.upper_bound - ret.result.predicted_price) * Scale
                = ret.result.predicted_price * confidence

\* C6: load_model with a path at which no file exists raises
\* FileNotFoundError and leaves every field of the estimator (its model and
\* its model_trained among them) as it was.
C6_LoadMissingFile ==
    [][(ret'.op = "load_model" /\ ~files[ret'.path].exists)
         => /\ ret'.err = "FileNotFoundError"
            /\ est' = est
            /\ files' = files]_vars

\* C6 witness: load_model has just failed for a missing file on an estimator
\* that is Trained and holds a fitted model.
C6_Witness ==
    /\ ret.op = "load_model"
    /\ ret.err = "FileNotFoundError"
    /\ est[ret.inst].model_trained
    /\ est[ret.inst].model.fitted

\* C18 (as claimed): every point estimate the demo estimator returns is at
\* least 50,000, whatever the record and the noise draw.
C18_DemoEstimateAtLeastFloor ==
    (ret.op = "predict" /\ ret.err = "None"
        /\ est[ret.inst].model.kind = "MockModel")
        => /\ ~ret.result.nan
           /\ ret.result.predicted_price >= price_floor * Scale

\* The formula of the demo estimator cannot be computed on the DataFrame X:
\* X has no row, lacks one of the three columns, or holds text in one.
FormulaFails(X) ==
    \/ X = << >>
    \/ \E c \in {"square_feet", "bedrooms", "bathrooms"} :
          c \notin DOMAIN X[1] \/ X[1][c] = Text

\* The estimates of the error fallback of the demo estimator.
FallbackEstimates == {fallback_mean + fallback_sd * z : z \in ZDraws}

Lacking(e, features) == e.features.names \ DOMAIN features[1]

\* C20 (as claimed): predict on an estimator that is Trained and holds a
\* fitted model and a schema, given records that lack a feature of the
\* schema, hands the model the value zero for that feature and returns a
\* dict instead of raising.
C20_MissingFeatureZeroFilled ==
    (/\ ret.op = "predict"
     /\ est[ret.inst].model_trained
     /\ est[ret.inst].model.fitted
     /\ ~est[ret.inst].features.none
     /\ ret.features # << >>
     /\ Lacking(est[ret.inst], ret.features) # {}
     /\ \A c \in DOMAIN ret.features[1] : IsNum(ret.features[1][c]) \/ c \in CategoricalFeatures)
        => /\ \A c \in Lacking(est[ret.inst], ret.features) : ret.frame[1][c] = Num(0)
           /\ ret.err = "None"

\* An estimator that is Trained through load_model alone: it was constructed,
\* then restored from a file that save_model wrote for a fitted pipeline.
Restored(e) ==
    /\ e.model_trained
    /\ e.features.none
    /\ e.model.kind = "Pipeline"
    /\ e.model.fitted

\* C26 (as claimed): after save_model on a Trained estimator and load_model
\* of that file into a newly constructed estimator, predict on the restored
\* estimator returns a dict instead of raising.
C26_RestoredPredicts ==
    (/\ ret.op = "predict"
     /\ Restored(est[ret.inst])
     /\ ret.features = << FullRow(Num(2000), Num(3), Num(2)) >>)
        => ret.err = "None"

\* The dicts predict on estimator fields e can return for the first record
\* of features alone.
FirstRecordResults(e, features) ==
    {PredictCall(e, << features[1] >>, fout, z).result :
        fout \in OutputsOf(e), z \in DrawsOf(e)}

\* predict on estimator fields e raises err for the record r alone.
RaisesAlone(e, r, err) == PredictCall(e, << r >>, 0, 0).err = err

C23_PerfectPredictionMetrics ==
    (/\ ret.op = "evaluate"
     /\ ret.err = "None"
     /\ \A k \in 1..ret.metrics.n : ret.metrics.residuals[k] = 0)
        => /\ ret.metrics.mse = Frac(0, ret.metrics.n)
           /\ ret.metrics.rmse = SqrtOf(Frac(0, ret.metrics.n))
           /\ ret.metrics.mae = Frac(0, ret.metrics.n)
           /\ ret.metrics.r2.t = "num"
           /\ ret.metrics.r2.num = ret.metrics.r2.den

(***************************************************************************)
(* Properties of the session                                               *)
(***************************************************************************)
\* C5: in every reachable state of the session the list of recent
\* predictions holds at most 5 entries.
C5_RecentAtMostFive == Len(recent_predictions) <= 5

\* C5 witness: the list holds 5 entries and the prediction just displayed is
\* its last one, while its first one is a different property: a prediction
\* was made on a full list.
C5_Witness ==
    /\ Len(recent_predictions) = 5
    /\ shown # << >>
    /\ recent_predictions[5].property = shown[1].property
    /\ recent_predictions[1].timestamp > 0
    /\ recent_predictions[1].property # recent_predictions[5].property

\* C25: a Predict Price click appends the new prediction as the last entry
\* of the recent list and keeps before it, in their order, the entries the
\* list held, all of them when it held fewer than 5 and all but the oldest
\* when it held 5; so the list is the last min(n, 5) predictions in the
\* order they were made.
C25_RecentKeepsLastFive ==
    [][ClickPredict =>
          LET n == Len(recent_predictions)
              m == Len(recent_predictions')
          IN  /\ m = Min({n + 1, 5})
              /\ recent_predictions'[m] =
                    [property |-> shown'[1].property,
                     prediction |-> shown'[1].prediction,
                     timestamp |-> clock]
              /\ \A k \in 1..(m - 1) :
                    recent_predictions'[k] = recent_predictions[k + n + 1 - m]]_vars

\* C25 witness: the list is full, its last entry is the prediction on
\* display, made a second after the first entry, for another property than
\* the entry before it.
C25_Witness ==
    /\ Len(recent_predictions) = 5
    /\ shown # << >>
    /\ recent_predictions[5].property = shown[1].property
    /\ recent_predictions[5].prediction = shown[1].prediction
    /\ recent_predictions[5].timestamp = 1
    /\ recent_predictions[1].timestamp = 0
    /\ recent_predictions[4].property # recent_predictions[5].property

\* No saved entry has the property record property_details.
NotSaved(property_details) ==
    \A k \in 1..Len(saved_properties) :
        saved_properties[k].property # property_details

\* C27 (as claimed): a click on Save This Property, after a Predict Price
\* click displayed a result for a property that no saved entry holds, appends
\* to the saved list that property with its prediction and the time.
C27_SaveAppendsDisplayed ==
    [][(ClickSave /\ NotSaved(shown[1].property)) =>
          saved_properties' =
             Append(saved_properties,
                    [property |-> shown[1].property,
                     prediction |-> shown[1].prediction,
                     saved_on |-> clock])]_vars

\* The property records of a saved list are pairwise different.
NoDuplicates(saved) ==
    \A j, k \in 1..Len(saved) : j # k => saved[j].property # saved[k].property

C9_EmptyCriteriaIdentity ==
    (args.op = "filter" /\ \A k \in DOMAIN args.filters : ~args.filters[k].present)
        => out = data

\* C9 witness: a batch of two records went through the empty filters dict.
C9_Witness ==
    /\ args.op = "filter"
    /\ \A k \in DOMAIN args.filters : ~args.filters[k].present
    /\ Len(data) = 2
    /\ Len(out) = 2

\* A criterion lets a record through: it is omitted, None or "All", or the
\* record meets it.
Meets(r, filters, key) ==
    \/ ~filters[key].present
    \/ filters[key].none
    \/ CASE key = "min_price" -> r.price >= filters[key].v
          [] key = "max_price" -> r.price <= filters[key].v
          [] key = "min_bedrooms" -> r.bedrooms >= filters[key].v
          [] key = "min_bathrooms" -> r.bathrooms >= filters[key].v
          [] key = "min_square_feet" -> r.square_feet >= filters[key].v
          [] key = "location" -> filters[key].v = "All" \/ r.location = filters[key].v
          [] key = "property_type" ->
                filters[key].v = "All" \/ r.property_type = filters[key].v

\* C10: filter_properties returns exactly the input records that meet every
\* one of the seven criteria, in the input order; a key it does not know
\* changes nothing.
C10_FilterIsConjunction ==
    args.op = "filter"
        => out = SelectSeq(data, LAMBDA r :
                     \A key \in CriteriaKeys : Meets(r, args.filters, key))

\* C10 witness: two criteria and an unknown key are supplied; one record
\* passes and one is excluded.
C10_Witness ==
    /\ args.op = "filter"
    /\ Supplied(args.filters, "max_price")
    /\ args.filters.location = Given("All")
    /\ Len(data) = 2
    /\ Len(out) = 1
    /\ out[1].price = args.filters.max_price.v

(***************************************************************************)
(* Properties of get_similar_properties                                    *)
(***************************************************************************)
\* The similarity score of the record r of the batch of the call.
ScoreOf(r) == SimilarityScore(data, args.ref, r)

\* The place of the record r in the batch.
PlaceOf(r) == CHOOSE k \in 1..Len(data) : data[k] = r

IsReference(r) == "id" \in DOMAIN args.ref /\ r.id = args.ref.id

C8_TiesInBatchOrder ==
    args.op = "similar"
        => /\ \A j, k \in 1..Len(out) :
                 (j < k /\ ScoreEqual(ScoreOf(out[j]), ScoreOf(out[k])))
                    => PlaceOf(out[j]) < PlaceOf(out[k])
           /\ \A r \in Range(data) \ Range(out) :
                 \A k \in 1..Len(out) :
                    (~IsReference(r) /\ ScoreEqual(ScoreOf(r), ScoreOf(out[k])))
                       => PlaceOf(out[k]) < PlaceOf(r)

\* C24 (as claimed): every record get_similar_properties returns is a record
\* of the input batch, with every field of it and its value and no other
\* field.
C24_ResultKeepsInputFields ==
    args.op = "similar" => \A k \in 1..Len(out) : out[k] \in Range(data)

(***************************************************************************)
(* Properties of clean_property_data                                       *)
(***************************************************************************)
\* C11 (as claimed): cleaning a cleaned batch gives the cleaned batch again,
\* field for field.
C11_CleanIdempotent == args.op = "clean_again" => out = args.first

NumericColumns == {"price", "square_feet", "bedrooms", "bathrooms"}

\* The number the text or number of a cell of column c stands for, nan if
\* none.
Parsed(c, cell) == IF c = "price" THEN ExtractPrice(cell) ELSE ExtractNumeric(cell)

\* C12 (as claimed): after clean no price, square_feet, bedrooms or bathrooms
\* value is missing, in any column of these that holds a number at all (as a
\* number or as a text a number can be parsed from): a text without a number
\* counts as missing and gets the median.
C12_NoValueMissing ==
    args.op = "clean"
        => \A c \in NumericColumns :
              (\E k \in 1..Len(data) : IsNum(Parsed(c, data[k][c])))
                 => \A k \in 1..Len(out) : IsNum(out[k][c])

\* The year_built values of the batch handed to clean that are numbers not
\* greater than the current year.
ValidYears ==
    SelectSeq([k \in 1..Len(data) |-> ToNumeric(data[k].year_built)],
              LAMBDA y : IsNum(y) /\ y.v <= current_year * Quarters)

IsFutureYear(cell) ==
    IsNum(ToNumeric(cell)) /\ ToNumeric(cell).v > current_year * Quarters

\* C13 (as claimed): after clean no year_built is greater than the current
\* year, and each value that was greater is now the median of the valid
\* year_built values of the batch (where it has any).
C13_FutureYearsGetMedian ==
    args.op = "clean"
        => \A k \in 1..Len(out) :
              /\ ~IsFutureYear(out[k].year_built)
              /\ (IsFutureYear(data[k].year_built) /\ ValidYears # << >>)
                    => out[k].year_built = Median(ValidYears)

(***************************************************************************)
(* Properties of generate_market_insights                                  *)
(***************************************************************************)
ProcessorOps == {"clean", "insights", "filter", "similar"}

\* C14 (as claimed): a call of clean_property_data, generate_market_insights,
\* filter_properties or get_similar_properties leaves the DataFrame of the
\* caller as it was: no column added, removed or altered.
C14_CallerBatchUnchanged ==
    [][args'.op \in ProcessorOps => data' = data]_vars

\* C15 (as claimed): generate_market_insights on a batch with a record whose
\* square_feet is zero raises nothing and reports a finite mean price per
\* square foot.
C15_ZeroAreaMeanFinite ==
    (/\ args.op = "insights"
     /\ {"price", "square_feet"} \subseteq Columns(data)
     /\ \E k \in 1..Len(data) : data[k].square_feet = 0)
        => /\ out.err = "None"
           /\ out.avg_price_per_sqft.kind = "num"

\* C17: generate_market_insights on an empty batch raises nothing and
\* returns mean price 0, price range (0, 0), mean price per square foot 0,
\* no popular location, an empty distribution and an empty trend.
C17_EmptyBatchZeroSummary ==
    (args.op = "insights" /\ Len(data) = 0)
        => /\ out.err = "None"
           /\ out.avg_price = Ratio(0, 1)
           /\ out.price_range = <<0, 0>>
           /\ out.avg_price_per_sqft = Ratio(0, 1)
           /\ out.popular_locations = << >>
           /\ out.property_type_distribution = << >>
           /\ out.price_trends = << >>

\* C17 witness: generate_market_insights has returned for an empty batch.
C17_Witness ==
    /\ args.op = "insights"
    /\ data = << >>
    /\ out # << >>
    /\ out.err = "None"

\* C16 (as claimed): when a weighted feature that is compared has maximum
\* zero in the batch, its distance is zero or left out for every record, so
\* that every similarity score is a finite number.
C16_ZeroMaxTermSkipped ==
    (/\ args.op = "similar"
     /\ \E f \in WeightedFeatures :
           Used(data, args.ref, f) /\ ColMax(data, f) = 0)
        => \A r \in Range(data) : ~ScoreOf(r).inf

(***************************************************************************)
(* Properties of get_sample_data                                           *)
(***************************************************************************)
\* C21: every record get_sample_data returns has a price of at least 100000
\* and a year_built that is at most the current year.
C21_GeneratedPriceAndYear ==
    args.op = "generate"
        => \A k \in 1..Len(out) :
              out[k].price >= 100000 /\ out[k].year_built <= current_year

\* C21 witness: the generator returned a record built in the last year of
\* the range and a record whose rounded price was below the floor.
C21_Witness ==
    /\ args.op = "generate"
    /\ Len(out) = 2
    /\ out[1].year_built = last_year
    /\ out[1].price > min_price
    /\ out[2].price = min_price
    /\ RoundThousands(PriceNum(data[2].row, price_year, data[2].noise),
                      PriceDen) < min_price

\* C22 (as claimed): the price of every generated record is the greater of
\* 100000 and the rounding to the nearest thousand of the sum of line 64-72,
\* with the age counted from the current year, times the two factors and
\* the noise.
C22_PriceFromCurrentYear ==
    args.op = "generate"
        => \A k \in 1..Len(out) :
              out[k].price =
                 Max({RoundThousands(
                         PriceNum(data[k].row, current_year, data[k].noise),
                         PriceDen),
                      100000})

====
